---- MODULE Spec2Model ----
(***************************************************************************)
(* Model of the api-cache server (src/main/main.go) and of its paged       *)
(* upstream fetcher (src/http_utils/util.go).                              *)
(*                                                                         *)
(* Processes: the scheduler loop of Server.Run, the four refresh           *)
(* goroutines that Server.refreshCaches starts in every cycle, and one     *)
(* HTTP request goroutine that serves one request at a time.               *)
(***************************************************************************)
EXTENDS Integers, Sequences, FiniteSets, TLC

(* ------------------------------ bounds -------------------------------- *)

\* number of refresh cycles the scheduler loop is followed for
MaxCycles == 2
\* longest upstream page chain
MaxPages == 3
\* largest count a view request asks for
MaxCount == 2
\* number of upstream requests that may fail over a run
MaxFaults == 1

(* --------------------------- route constants -------------------------- *)

kRouteHealthCheck == "/healthcheck"
kGitHubRoot == "/"
kGitHubNetflix == "/orgs/Netflix"
kGitHubNetflixMembers == "/orgs/Netflix/members"
kGitHubNetflixRepos == "/orgs/Netflix/repos"
kViews == "/view/top/"

Routes == {kGitHubRoot, kGitHubNetflix, kGitHubNetflixMembers, kGitHubNetflixRepos}
SinglePageRoutes == {kGitHubRoot, kGitHubNetflix, kGitHubNetflixMembers}

ViewKeys == {"forks", "last_updated", "open_issues", "stars"}

(* ------------------------- upstream (github) -------------------------- *)

\* Repository entities the upstream can serve (github_types.Repository,
\* reduced to the fields refreshNetflixRepos reads).
RepoA == [name |-> "A", forks |-> 5, updated |-> 2, openIssues |-> 1, stars |-> 10]
RepoB == [name |-> "B", forks |-> 9, updated |-> 3, openIssues |-> 1, stars |-> 2]
RepoC == [name |-> "C", forks |-> 5, updated |-> 1, openIssues |-> 0, stars |-> 2]

\* Payload of page p of /orgs/Netflix/repos as served in cycle c: the
\* collection changes from one cycle to the next.
PagePayload(c, p) == IF (c + p) % 2 = 0 THEN <<RepoA, RepoB>> ELSE <<RepoC>>

\* What one upstream request can come back with: a success response, a
\* non-success status with an error document, a success response whose
\* payload is not valid JSON, or no response at all (transport error).
Outcomes == {"ok", "status", "malformed", "transport"}

\* The Link response header of page p of a chain of k pages, as a sequence
\* of <<target, relation>> entries (the text between the commas, cut at the
\* semicolon).  A single-page collection carries no Link header.
LinkHeader(p, k) ==
    IF k = 1 THEN <<>>
    ELSE (IF p > 1 THEN << <<p - 1, "rel=\"prev\"">> >> ELSE <<>>)
      \o (IF p < k THEN << <<p + 1, "rel=\"next\"">>, <<k, "rel=\"last\"">> >> ELSE <<>>)
      \o (IF p > 1 THEN << <<1, "rel=\"first\"">> >> ELSE <<>>)

\* The response to the request for page p of route r in cycle c.  Bodies are
\* tagged with the cycle they were served in, so that bodies of different
\* cycles differ.
Response(r, c, p, k, outcome) ==
    [err  |-> outcome = "transport",
     body |-> [route |-> r, gen |-> c, page |-> p,
               kind  |-> CASE outcome = "ok" -> "json"
                           [] outcome = "status" -> "error"
                           [] outcome = "malformed" -> "malformed"
                           [] OTHER -> "none",
               items |-> IF outcome = "ok" /\ r = kGitHubNetflixRepos THEN PagePayload(c, p) ELSE <<>>],
     link |-> IF outcome \in {"ok", "malformed"} THEN LinkHeader(p, k) ELSE <<>>]

(* ------------------------------ PagedGet ------------------------------ *)

\* nextLink is the page the link points to; 0 stands for the empty string.
NewPagedGet == [nextLink |-> 1]

\* Mutant of FindNext: the relation looked for is "last".
RECURSIVE FindNext_Last(_, _)
FindNext_Last(linkRels, i) ==
    IF i > Len(linkRels) THEN 0
    ELSE IF linkRels[i][2] = "rel=\"last\"" THEN i
    ELSE FindNext_Last(linkRels, i + 1)

\* Index of the first Link entry whose relation is "next", 0 if none.
RECURSIVE FindNext(_, _)
FindNext(linkRels, i) ==
    IF i > Len(linkRels) THEN 0
    ELSE IF linkRels[i][2] = "rel=\"next\"" THEN i
    ELSE FindNext(linkRels, i + 1)

\* GetPage on PagedGet g, given the response to the request it issues.
\* Result: the new PagedGet, the body, whether more pages remain, and
\* whether the call panicked.
GetPage(g, resp) ==
    IF g.nextLink = 0 \/ resp.err
    THEN [g |-> g, body |-> resp.body, more |-> FALSE, panic |-> TRUE]
    ELSE LET i == FindNext(resp.link, 1)
         IN  IF resp.link = <<>> \/ i = 0
             THEN [g |-> g, body |-> resp.body, more |-> FALSE, panic |-> FALSE]
             ELSE [g |-> [nextLink |-> resp.link[i][1]], body |-> resp.body,
                   more |-> TRUE, panic |-> FALSE]

(* ------------------------- encoding/json, sort ------------------------ *)

\* json.Unmarshal(body, &pageRepos): the decoded repositories; a body that
\* is not a JSON array leaves pageRepos nil.
Unmarshal(body) == IF body.kind = "json" THEN body.items ELSE <<>>

\* json.Marshal(repos): a nil slice serializes to null, otherwise an array.
Marshal(c, repos) ==
    [route |-> kGitHubNetflixRepos, gen |-> c, page |-> 0,
     kind |-> IF repos = <<>> THEN "null" ELSE "array", items |-> repos]

\* The entry of a missing key of s.caches: a nil byte slice.
NilBody(r) == [route |-> r, gen |-> 0, page |-> 0, kind |-> "nil", items |-> <<>>]

\* ve := &viewElm{...}: a fresh element, identified by the cycle and the
\* position it was allocated at.
NewViewElm(c, i, r) ==
    [ptr |-> <<c, i>>, name |-> r.name, forks |-> r.forks, updated |-> r.updated,
     openIssues |-> r.openIssues, stars |-> r.stars]

\* Mutant of Less: the forks comparison is the wrong way round.
Less_ForksAscending(key, a, b) ==
    CASE key = "forks" -> a.forks < b.forks
      [] key = "last_updated" -> a.updated > b.updated
      [] key = "open_issues" -> a.openIssues > b.openIssues
      [] key = "stars" -> a.stars > b.stars

\* The less functions passed to sort.Slice.
Less(key, a, b) ==
    CASE key = "forks" -> a.forks > b.forks
      [] key = "last_updated" -> a.updated > b.updated
      [] key = "open_issues" -> a.openIssues > b.openIssues
      [] key = "stars" -> a.stars > b.stars

Swap(s, i, j) == [s EXCEPT ![i] = s[j], ![j] = s[i]]

\* sort.Slice on a slice of at most 12 elements is an insertion sort:
\*   for i := a+1; i < b; i++ { for j := i; j > a && less(j, j-1); j-- { swap(j, j-1) } }
RECURSIVE SiftDown(_, _, _)
SiftDown(key, s, j) ==
    IF j > 1 /\ Less(key, s[j], s[j - 1])
    THEN SiftDown(key, Swap(s, j, j - 1), j - 1)
    ELSE s

RECURSIVE InsertionSort(_, _, _)
InsertionSort(key, s, i) ==
    IF i > Len(s) THEN s ELSE InsertionSort(key, SiftDown(key, s, i), i + 1)

SortSlice(key, s) == InsertionSort(key, s, 2)

\* elms built from the repos of one page, appended after n earlier elements.
PageElms(c, n, pageRepos) ==
    [i \in 1..Len(pageRepos) |-> NewViewElm(c, n + i, pageRepos[i])]

(* --------------------------- strconv, fmt ----------------------------- *)

Digits == <<"0", "1", "2", "3", "4", "5", "6", "7", "8", "9">>
IsDigit(ch) == \E d \in 1..10 : Digits[d] = ch
DigitVal(ch) == (CHOOSE d \in 1..10 : Digits[d] = ch) - 1

RECURSIVE ParseDigits(_, _)
ParseDigits(s, acc) ==
    IF s = <<>> THEN acc ELSE ParseDigits(Tail(s), acc * 10 + DigitVal(Head(s)))

\* count, _ := strconv.Atoi(tok): the value, 0 when tok is not a number.
\* tok is the sequence of the characters of the token.
Atoi(tok) ==
    LET signed == tok # <<>> /\ Head(tok) \in {"-", "+"}
        digits == IF signed THEN Tail(tok) ELSE tok
    IN  IF digits = <<>> \/ \E i \in 1..Len(digits) : ~IsDigit(digits[i])
        THEN 0
        ELSE IF signed /\ Head(tok) = "-" THEN 0 - ParseDigits(digits, 0)
        ELSE ParseDigits(digits, 0)

\* updated.Local().String() with the suffix "-0700 PDT" trimmed and "Z"
\* appended.  The local zone is America/Los_Angeles: daylight time (PDT,
\* 7 hours behind) for instants from 2 on, standard time (PST, 8 hours
\* behind) before.  Instants and wall clocks are in hours.
FormatUpdated(t) ==
    LET zone == IF t >= 2 THEN "-0700 PDT" ELSE "-0800 PST"
        wall == IF t >= 2 THEN t - 7 ELSE t - 8
    IN  <<wall, IF zone = "-0700 PDT" THEN "Z" ELSE zone \o "Z">>

(* ------------------------------- state -------------------------------- *)

VARIABLES
    caches,         \* Server.caches: route -> body
    topForks,       \* Server.topForks
    lastUpdated,    \* Server.lastUpdated
    topOpenIssues,  \* Server.topOpenIssues
    topStars,       \* Server.topStars
    ready,          \* Server.ready
    lock,           \* Server.lock: "free" or the holder
    crashed,        \* the process has exited on an unrecovered panic
    cycle,          \* number of refreshCaches calls started
    spc,            \* position of the scheduler loop (Run / refreshCaches)
    tpc,            \* position of each refresh goroutine
    g,              \* the PagedGet of each refresh goroutine
    body,           \* local body of each single-page refresh goroutine
    next,           \* local next of refreshNetflixRepos
    elms,           \* local elms of refreshNetflixRepos
    repos,          \* local repos of refreshNetflixRepos
    chain,          \* upstream: length of the page chain served to each fetch in progress
    faults,         \* upstream: number of requests that have failed so far
    requested,      \* upstream: pages requested by each fetch of this cycle, in order
    failed,         \* upstream: how the fetch of each route failed this cycle, or "none"
    prevCaches,     \* caches as they were when the current cycle started
    rpc,            \* position of the request goroutine
    req,            \* the request being served
    resp            \* the response computed for it

serverVars == <<caches, topForks, lastUpdated, topOpenIssues, topStars, ready>>
viewVars == <<topForks, lastUpdated, topOpenIssues, topStars>>
reposVars == <<next, elms, repos>>
upstreamVars == <<chain, faults, requested, failed>>
readerVars == <<rpc, req, resp>>
vars == <<caches, topForks, lastUpdated, topOpenIssues, topStars, ready, lock, crashed,
          cycle, spc, tpc, g, body, next, elms, repos, chain, faults, requested, failed,
          prevCaches, rpc, req, resp>>

NoRequest == [handler |-> "none", tokens |-> <<>>]
NoResponse == [status |-> 0, body |-> NilBody(kGitHubRoot), items |-> <<>>]

\* NewServer: empty cache map, nil views, not ready; no goroutine started.
Init ==
    /\ caches = [r \in Routes |-> NilBody(r)]
    /\ topForks = <<>>
    /\ lastUpdated = <<>>
    /\ topOpenIssues = <<>>
    /\ topStars = <<>>
    /\ ready = FALSE
    /\ lock = "free"
    /\ crashed = FALSE
    /\ cycle = 0
    /\ spc = "run"
    /\ tpc = [r \in Routes |-> "idle"]
    /\ g = [r \in Routes |-> [nextLink |-> 0]]
    /\ body = [r \in SinglePageRoutes |-> NilBody(r)]
    /\ next = FALSE
    /\ elms = <<>>
    /\ repos = <<>>
    /\ chain = [r \in Routes |-> 0]
    /\ faults = 0
    /\ requested = [r \in Routes |-> <<>>]
    /\ failed = [r \in Routes |-> "none"]
    /\ prevCaches = [r \in Routes |-> NilBody(r)]
    /\ rpc = "idle"
    /\ req = NoRequest
    /\ resp = NoResponse

(* ------------------------ Run and refreshCaches ----------------------- *)

\* Run calls refreshCaches, which starts the four refresh goroutines; each
\* begins by constructing its PagedGet.  The upstream fixes the length of
\* the page chain it serves for each route in this cycle.
refreshCaches ==
    /\ ~crashed
    /\ spc = "run"
    /\ cycle' = cycle + 1
    /\ spc' = "wait"
    /\ tpc' = [r \in Routes |-> "fetch"]
    /\ g' = [r \in Routes |-> NewPagedGet]
    /\ next' = TRUE
    /\ elms' = <<>>
    /\ repos' = <<>>
    /\ requested' = [r \in Routes |-> <<>>]
    /\ failed' = [r \in Routes |-> "none"]
    /\ prevCaches' = caches
    /\ UNCHANGED <<serverVars, lock, crashed, body, chain, faults, readerVars>>

\* Mutant of wgWait: the wait returns without waiting for any goroutine.
wgWait_Immediately ==
    /\ ~crashed
    /\ spc = "wait"
    /\ spc' = IF ready THEN "sleep" ELSE "markReady"
    /\ UNCHANGED <<serverVars, lock, crashed, cycle, tpc, g, body, reposVars,
                   upstreamVars, prevCaches, readerVars>>

\* Mutant of wgWait: the wait returns as soon as one goroutine is done.
wgWait_AnyDone ==
    /\ ~crashed
    /\ spc = "wait"
    /\ \E r \in Routes : tpc[r] = "done"
    /\ spc' = IF ready THEN "sleep" ELSE "markReady"
    /\ UNCHANGED <<serverVars, lock, crashed, cycle, tpc, g, body, reposVars,
                   upstreamVars, prevCaches, readerVars>>

\* wg.Wait() returns once the four goroutines are done; then `if !s.ready`.
wgWait ==
    /\ ~crashed
    /\ spc = "wait"
    /\ \A r \in Routes : tpc[r] = "done"
    /\ spc' = IF ready THEN "sleep" ELSE "markReady"
    /\ UNCHANGED <<serverVars, lock, crashed, cycle, tpc, g, body, reposVars,
                   upstreamVars, prevCaches, readerVars>>

\* s.lock.Lock() of refreshCaches.
markReadyLock ==
    /\ ~crashed
    /\ spc = "markReady"
    /\ lock = "free"
    /\ lock' = "refreshCaches"
    /\ spc' = "setReady"
    /\ UNCHANGED <<serverVars, crashed, cycle, tpc, g, body, reposVars,
                   upstreamVars, prevCaches, readerVars>>

\* s.ready = true; s.lock.Unlock().
markReady ==
    /\ ~crashed
    /\ spc = "setReady"
    /\ ready' = TRUE
    /\ lock' = "free"
    /\ spc' = "sleep"
    /\ UNCHANGED <<caches, viewVars, crashed, cycle, tpc, g, body, reposVars,
                   upstreamVars, prevCaches, readerVars>>

\* time.Sleep(time.Minute * 5), then the next iteration of the loop.
Sleep ==
    /\ ~crashed
    /\ spc = "sleep"
    /\ cycle < MaxCycles
    /\ spc' = "run"
    /\ UNCHANGED <<serverVars, lock, crashed, cycle, tpc, g, body, reposVars,
                   upstreamVars, prevCaches, readerVars>>

(* ------------- refreshRoot, refreshNetflix, refreshNetflixMembers ----- *)

\* The upstream fixes the length of the page chain of a collection when the
\* first page of a fetch is requested.
ChainLengths(r) == IF chain[r] = 0 THEN 1..MaxPages ELSE {chain[r]}

\* The outcomes the next upstream request can have.
PossibleOutcomes(r) ==
    {o \in Outcomes : /\ o = "ok" \/ faults < MaxFaults
                      /\ o = "malformed" => r = kGitHubNetflixRepos}

\* body, _ := g.GetPage(): the only request of the fetch, so the upstream's
\* chain is not followed further; a transport error panics in the
\* goroutine, which ends the process.
FetchSinglePage(r) ==
    /\ ~crashed
    /\ tpc[r] = "fetch"
    /\ \E outcome \in PossibleOutcomes(r), k \in ChainLengths(r) :
         LET res == GetPage(g[r], Response(r, cycle, g[r].nextLink, k, outcome))
         IN  /\ requested' = [requested EXCEPT ![r] = Append(@, g[r].nextLink)]
             /\ failed' = [failed EXCEPT ![r] = IF outcome = "ok" THEN @ ELSE outcome]
             /\ faults' = IF outcome = "ok" THEN faults ELSE faults + 1
             /\ IF res.panic
                THEN /\ crashed' = TRUE
                     /\ UNCHANGED <<g, body, tpc>>
                ELSE /\ g' = [g EXCEPT ![r] = res.g]
                     /\ body' = [body EXCEPT ![r] = res.body]
                     /\ tpc' = [tpc EXCEPT ![r] = "lock"]
                     /\ UNCHANGED crashed
    /\ UNCHANGED <<serverVars, lock, cycle, spc, reposVars, chain, prevCaches, readerVars>>

\* s.lock.Lock()
LockSinglePage(r) ==
    /\ ~crashed
    /\ tpc[r] = "lock"
    /\ lock = "free"
    /\ lock' = r
    /\ tpc' = [tpc EXCEPT ![r] = "store"]
    /\ UNCHANGED <<serverVars, crashed, cycle, spc, g, body, reposVars, upstreamVars,
                   prevCaches, readerVars>>

\* Mutant of StoreSinglePage: the body is stored under the key of the root
\* route, whatever the route.
StoreSinglePage_WrongKey(r) ==
    /\ ~crashed
    /\ tpc[r] = "store"
    /\ caches' = [caches EXCEPT ![kGitHubRoot] = body[r]]
    /\ lock' = "free"
    /\ tpc' = [tpc EXCEPT ![r] = "done"]
    /\ g' = [g EXCEPT ![r] = [nextLink |-> 0]]
    /\ body' = [body EXCEPT ![r] = NilBody(r)]
    /\ requested' = [requested EXCEPT ![r] = <<>>]
    /\ UNCHANGED <<viewVars, ready, crashed, cycle, spc, reposVars, chain, faults, failed,
                   prevCaches, readerVars>>

\* s.caches[route] = body; return, running the deferred Unlock and wg.Done.
\* The goroutine's locals are gone with it.
StoreSinglePage(r) ==
    /\ ~crashed
    /\ tpc[r] = "store"
    /\ caches' = [caches EXCEPT ![r] = body[r]]
    /\ lock' = "free"
    /\ tpc' = [tpc EXCEPT ![r] = "done"]
    /\ g' = [g EXCEPT ![r] = [nextLink |-> 0]]
    /\ body' = [body EXCEPT ![r] = NilBody(r)]
    /\ requested' = [requested EXCEPT ![r] = <<>>]
    /\ UNCHANGED <<viewVars, ready, crashed, cycle, spc, reposVars, chain, faults, failed,
                   prevCaches, readerVars>>

refreshSinglePage(r) == FetchSinglePage(r) \/ LockSinglePage(r) \/ StoreSinglePage(r)

refreshRoot == refreshSinglePage(kGitHubRoot)

refreshNetflix == refreshSinglePage(kGitHubNetflix)

refreshNetflixMembers == refreshSinglePage(kGitHubNetflixMembers)

(* -------------------------- refreshNetflixRepos ----------------------- *)

\* Mutant of reposGetPage: the repos of a page are put in front of those of
\* the earlier pages.
reposGetPage_Prepend ==
    /\ ~crashed
    /\ tpc[kGitHubNetflixRepos] = "fetch"
    /\ next
    /\ \E outcome \in PossibleOutcomes(kGitHubNetflixRepos),
          k \in ChainLengths(kGitHubNetflixRepos) :
         LET r == kGitHubNetflixRepos
             res == GetPage(g[r], Response(r, cycle, g[r].nextLink, k, outcome))
             pageRepos == Unmarshal(res.body)
         IN  /\ chain' = [chain EXCEPT ![r] = k]
             /\ requested' = [requested EXCEPT ![r] = Append(@, g[r].nextLink)]
             /\ failed' = [failed EXCEPT ![r] = IF outcome = "ok" THEN @ ELSE outcome]
             /\ faults' = IF outcome = "ok" THEN faults ELSE faults + 1
             /\ IF res.panic
                THEN /\ crashed' = TRUE
                     /\ UNCHANGED <<g, reposVars, tpc>>
                ELSE /\ g' = [g EXCEPT ![r] = res.g]
                     /\ next' = res.more
                     /\ repos' = pageRepos \o repos
                     /\ elms' = elms \o PageElms(cycle, Len(elms), pageRepos)
                     /\ tpc' = [tpc EXCEPT ![r] = IF res.more THEN "fetch" ELSE "lock"]
                     /\ UNCHANGED crashed
    /\ UNCHANGED <<serverVars, lock, cycle, spc, body, prevCaches, readerVars>>

\* One iteration of `for next`: GetPage, Unmarshal, append repos and elms.
reposGetPage ==
    /\ ~crashed
    /\ tpc[kGitHubNetflixRepos] = "fetch"
    /\ next
    /\ \E outcome \in PossibleOutcomes(kGitHubNetflixRepos),
          k \in ChainLengths(kGitHubNetflixRepos) :
         LET r == kGitHubNetflixRepos
             res == GetPage(g[r], Response(r, cycle, g[r].nextLink, k, outcome))
             pageRepos == Unmarshal(res.body)
         IN  /\ chain' = [chain EXCEPT ![r] = k]
             /\ requested' = [requested EXCEPT ![r] = Append(@, g[r].nextLink)]
             /\ failed' = [failed EXCEPT ![r] = IF outcome = "ok" THEN @ ELSE outcome]
             /\ faults' = IF outcome = "ok" THEN faults ELSE faults + 1
             /\ IF res.panic
                THEN /\ crashed' = TRUE
                     /\ UNCHANGED <<g, reposVars, tpc>>
                ELSE /\ g' = [g EXCEPT ![r] = res.g]
                     /\ next' = res.more
                     /\ repos' = repos \o pageRepos
                     /\ elms' = elms \o PageElms(cycle, Len(elms), pageRepos)
                     /\ tpc' = [tpc EXCEPT ![r] = IF res.more THEN "fetch" ELSE "lock"]
                     /\ UNCHANGED crashed
    /\ UNCHANGED <<serverVars, lock, cycle, spc, body, prevCaches, readerVars>>

\* Mutant of reposLock: the views are updated without taking the lock.
reposLock_NoLock ==
    /\ ~crashed
    /\ tpc[kGitHubNetflixRepos] = "lock"
    /\ tpc' = [tpc EXCEPT ![kGitHubNetflixRepos] = "marshal"]
    /\ UNCHANGED <<serverVars, lock, crashed, cycle, spc, g, body, reposVars, upstreamVars,
                   prevCaches, readerVars>>

\* Mutant of reposLock: the lock is taken before the loop over the pages.
reposLock_EarlyLock ==
    /\ ~crashed
    /\ \/ /\ tpc[kGitHubNetflixRepos] = "fetch"
          /\ lock = "free"
          /\ lock' = kGitHubNetflixRepos
          /\ UNCHANGED tpc
       \/ /\ tpc[kGitHubNetflixRepos] = "lock"
          /\ lock = kGitHubNetflixRepos
          /\ UNCHANGED lock
          /\ tpc' = [tpc EXCEPT ![kGitHubNetflixRepos] = "marshal"]
    /\ UNCHANGED <<serverVars, crashed, cycle, spc, g, body, reposVars, upstreamVars,
                   prevCaches, readerVars>>

\* s.lock.Lock()
reposLock ==
    /\ ~crashed
    /\ tpc[kGitHubNetflixRepos] = "lock"
    /\ lock = "free"
    /\ lock' = kGitHubNetflixRepos
    /\ tpc' = [tpc EXCEPT ![kGitHubNetflixRepos] = "marshal"]
    /\ UNCHANGED <<serverVars, crashed, cycle, spc, g, body, reposVars, upstreamVars,
                   prevCaches, readerVars>>

\* Mutant of reposMarshal: an empty repos list leaves the cached body as it is.
reposMarshal_KeepOnEmpty ==
    /\ ~crashed
    /\ tpc[kGitHubNetflixRepos] = "marshal"
    /\ caches' = IF repos = <<>> THEN caches
                 ELSE [caches EXCEPT ![kGitHubNetflixRepos] = Marshal(cycle, repos)]
    /\ tpc' = [tpc EXCEPT ![kGitHubNetflixRepos] = "clear"]
    /\ UNCHANGED <<viewVars, ready, lock, crashed, cycle, spc, g, body, reposVars,
                   upstreamVars, prevCaches, readerVars>>

\* s.caches[kGitHubNetflixRepos], _ = json.Marshal(repos)
reposMarshal ==
    /\ ~crashed
    /\ tpc[kGitHubNetflixRepos] = "marshal"
    /\ caches' = [caches EXCEPT ![kGitHubNetflixRepos] = Marshal(cycle, repos)]
    /\ tpc' = [tpc EXCEPT ![kGitHubNetflixRepos] = "clear"]
    /\ UNCHANGED <<viewVars, ready, lock, crashed, cycle, spc, g, body, reposVars,
                   upstreamVars, prevCaches, readerVars>>

\* s.topForks = s.topForks[:0] and likewise for the other three views.
reposClearViews ==
    /\ ~crashed
    /\ tpc[kGitHubNetflixRepos] = "clear"
    /\ topForks' = <<>>
    /\ lastUpdated' = <<>>
    /\ topOpenIssues' = <<>>
    /\ topStars' = <<>>
    /\ tpc' = [tpc EXCEPT ![kGitHubNetflixRepos] = IF elms = <<>> THEN "sort" ELSE "refill"]
    /\ UNCHANGED <<caches, ready, lock, crashed, cycle, spc, g, body, reposVars,
                   upstreamVars, prevCaches, readerVars>>

\* One iteration of `for _, ve := range elms`: ve is appended to each view.
reposRefillViews ==
    /\ ~crashed
    /\ tpc[kGitHubNetflixRepos] = "refill"
    /\ LET ve == elms[Len(topForks) + 1]
       IN  /\ topForks' = Append(topForks, ve)
           /\ lastUpdated' = Append(lastUpdated, ve)
           /\ topOpenIssues' = Append(topOpenIssues, ve)
           /\ topStars' = Append(topStars, ve)
    /\ tpc' = [tpc EXCEPT ![kGitHubNetflixRepos] =
                  IF Len(topForks) + 1 = Len(elms) THEN "sort" ELSE "refill"]
    /\ UNCHANGED <<caches, ready, lock, crashed, cycle, spc, g, body, reposVars,
                   upstreamVars, prevCaches, readerVars>>

\* The four sort.Slice calls; return, running the deferred Unlock and wg.Done.
\* The goroutine's locals are gone with it.
reposSortViews ==
    /\ ~crashed
    /\ tpc[kGitHubNetflixRepos] = "sort"
    /\ topForks' = SortSlice("forks", topForks)
    /\ lastUpdated' = SortSlice("last_updated", lastUpdated)
    /\ topOpenIssues' = SortSlice("open_issues", topOpenIssues)
    /\ topStars' = SortSlice("stars", topStars)
    /\ lock' = "free"
    /\ tpc' = [tpc EXCEPT ![kGitHubNetflixRepos] = "done"]
    /\ g' = [g EXCEPT ![kGitHubNetflixRepos] = [nextLink |-> 0]]
    /\ next' = FALSE
    /\ elms' = <<>>
    /\ repos' = <<>>
    /\ chain' = [chain EXCEPT ![kGitHubNetflixRepos] = 0]
    /\ requested' = [requested EXCEPT ![kGitHubNetflixRepos] = <<>>]
    /\ UNCHANGED <<caches, ready, crashed, cycle, spc, body, faults, failed,
                   prevCaches, readerVars>>

refreshNetflixRepos ==
    \/ reposGetPage
    \/ reposLock
    \/ reposMarshal
    \/ reposClearViews
    \/ reposRefillViews
    \/ reposSortViews

(* ----------------------------- HTTP handlers -------------------------- *)

\* strings.Split(r.URL.Path, "/") of a view path; the count token is kept as
\* the sequence of its characters.
ViewPath(count, key) == <<"", "view", "top", count, key>>

\* The requests the request goroutine can be handed.
Requests ==
    {[handler |-> h, tokens |-> <<>>] :
        h \in {"handleHealthCheck", "handleRoot", "handleNetflix",
               "handleNetflixRepos", "handleNetflixMembers"}}
    \cup {[handler |-> "handleViews", tokens |-> ViewPath(<<Digits[n + 1]>>, k)] :
            n \in 0..MaxCount, k \in ViewKeys}
    \cup {[handler |-> "handleViews", tokens |-> t] :
            t \in {ViewPath(<<"1">>, "bogus"), ViewPath(<<"-", "1">>, "forks"),
                   ViewPath(<<"x">>, "stars"), <<"", "view", "top", <<"1">> >>}}

\* The view a sort key selects in handleViews.
ViewOf(sortBy) ==
    CASE sortBy = "forks" -> topForks
      [] sortBy = "last_updated" -> lastUpdated
      [] sortBy = "open_issues" -> topOpenIssues
      [] sortBy = "stars" -> topStars
      [] OTHER -> <<>>

\* elm of iteration ii (counted from 1) of the loop of handleViews; an
\* unknown sort key leaves elm the empty string.
ViewElm(sortBy, ii) ==
    CASE sortBy = "forks" -> <<"Netflix/" \o topForks[ii].name, topForks[ii].forks>>
      [] sortBy = "last_updated" ->
            <<"Netflix/" \o lastUpdated[ii].name, FormatUpdated(lastUpdated[ii].updated)>>
      [] sortBy = "open_issues" ->
            <<"Netflix/" \o topOpenIssues[ii].name, topOpenIssues[ii].openIssues>>
      [] sortBy = "stars" -> <<"Netflix/" \o topStars[ii].name, topStars[ii].stars>>
      [] OTHER -> <<>>

\* The body handleViews builds for the tokens of a path, or a panic: on
\* tokens[3] / tokens[4] when the path is too short, on s.topX[ii] when the
\* loop runs past the end of the view.
ViewsBody(tokens) ==
    IF Len(tokens) < 5
    THEN [panic |-> TRUE, items |-> <<>>]
    ELSE LET count == Atoi(tokens[4])
             sortBy == tokens[5]
         IN  IF sortBy \in ViewKeys /\ count > Len(ViewOf(sortBy))
             THEN [panic |-> TRUE, items |-> <<>>]
             ELSE [panic |-> FALSE, items |-> [ii \in 1..count |-> ViewElm(sortBy, ii)]]

\* handleHealthCheck up to s.lock.Unlock(): the status it will answer.
handleHealthCheck ==
    /\ ~crashed
    /\ rpc = "idle"
    /\ lock = "free"
    /\ lock' = "handler"
    /\ rpc' = "respond"
    /\ req' = [handler |-> "handleHealthCheck", tokens |-> <<>>]
    /\ resp' = [status |-> IF ready THEN 200 ELSE 503, body |-> NilBody(kGitHubRoot),
                items |-> <<>>]
    /\ UNCHANGED <<serverVars, crashed, cycle, spc, tpc, g, body, reposVars,
                   upstreamVars, prevCaches>>

\* handleRoot (path "/"), handleNetflix, handleNetflixRepos and
\* handleNetflixMembers up to s.lock.Unlock(): the copy of the cached body.
HandleRoute(h, r) ==
    /\ ~crashed
    /\ rpc = "idle"
    /\ lock = "free"
    /\ lock' = "handler"
    /\ rpc' = "respond"
    /\ req' = [handler |-> h, tokens |-> <<>>]
    /\ resp' = [status |-> 200, body |-> caches[r], items |-> <<>>]
    /\ UNCHANGED <<serverVars, crashed, cycle, spc, tpc, g, body, reposVars,
                   upstreamVars, prevCaches>>

handleRoot == HandleRoute("handleRoot", kGitHubRoot)

handleNetflix == HandleRoute("handleNetflix", kGitHubNetflix)

handleNetflixRepos == HandleRoute("handleNetflixRepos", kGitHubNetflixRepos)

handleNetflixMembers == HandleRoute("handleNetflixMembers", kGitHubNetflixMembers)

\* handleViews up to s.lock.Unlock().  A panic ends the request goroutine
\* (net/http recovers it) with the lock still held: there is no deferred
\* Unlock.
handleViews ==
    /\ ~crashed
    /\ rpc = "idle"
    /\ lock = "free"
    /\ lock' = "handler"
    /\ \E rq \in Requests :
         /\ rq.handler = "handleViews"
         /\ req' = rq
         /\ LET res == ViewsBody(rq.tokens)
            IN  IF res.panic
                THEN /\ rpc' = "panicked"
                     /\ resp' = NoResponse
                ELSE /\ rpc' = "respond"
                     /\ resp' = [status |-> 200, body |-> NilBody(kGitHubRoot),
                                 items |-> res.items]
    /\ UNCHANGED <<serverVars, crashed, cycle, spc, tpc, g, body, reposVars,
                   upstreamVars, prevCaches>>

\* s.lock.Unlock() and the write of the response, in any handler.
handlerUnlock ==
    /\ ~crashed
    /\ rpc = "respond"
    /\ lock' = "free"
    /\ rpc' = "idle"
    /\ req' = NoRequest
    /\ resp' = NoResponse
    /\ UNCHANGED <<serverVars, crashed, cycle, spc, tpc, g, body, reposVars,
                   upstreamVars, prevCaches>>

(* --------------------------- specification ---------------------------- *)

Next ==
    \/ refreshCaches
    \/ wgWait
    \/ markReadyLock
    \/ markReady
    \/ Sleep
    \/ refreshRoot
    \/ refreshNetflix
    \/ refreshNetflixMembers
    \/ refreshNetflixRepos
    \/ handleHealthCheck
    \/ handleRoot
    \/ handleNetflix
    \/ handleNetflixRepos
    \/ handleNetflixMembers
    \/ handleViews
    \/ handlerUnlock

Spec == Init /\ [][Next]_vars

(* ------------------------------ properties ---------------------------- *)

Range(f) == {f[i] : i \in DOMAIN f}

Min(a, b) == IF a < b THEN a ELSE b

Views == <<topForks, lastUpdated, topOpenIssues, topStars>>

\* The cycles the elements of the views were allocated in.
ViewGens == UNION {{ve.ptr[1] : ve \in Range(Views[v])} : v \in 1..4}

\* A state a request can observe: no goroutine is inside a critical section.
Observable == lock = "free" /\ ~crashed

\* C1: once the server is ready, whenever a reader can read the cache, the
\* bodies of the four routes and the elements of the views all come from one
\* refresh cycle.
C1_SnapshotAtomicity ==
    (Observable /\ ready) =>
        /\ \A r1, r2 \in Routes : caches[r1].gen = caches[r2].gen
        /\ ViewGens \subseteq {caches[kGitHubNetflixRepos].gen}

\* The four refresh goroutines of the first cycle are done.
FirstCyclePublished == cycle >= 2 \/ (cycle = 1 /\ \A r \in Routes : tpc[r] = "done")

\* The first call of refreshCaches has returned.
FirstCycleReturned == cycle >= 2 \/ (cycle = 1 /\ spc \in {"sleep", "run"})

\* C2: ready is false in every state before the four refresh goroutines of
\* the first cycle are done, true in every state after the first
\* refreshCaches has returned, never goes from true to false, and a health
\* check answers 200 when ready is true and 503 otherwise.
C2_ReadinessMonotonic ==
    /\ [](/\ ready => FirstCyclePublished
          /\ FirstCycleReturned => ready
          /\ (rpc = "respond" /\ req.handler = "handleHealthCheck") =>
                resp.status = IF ready THEN 200 ELSE 503)
    /\ [][ready => ready']_vars

\* C2 witness: ready in a later cycle in which a route fetch has failed,
\* with a health check answering 200.
C2_Witness ==
    /\ ready
    /\ cycle = 2
    /\ \E r \in Routes : failed[r] = "status"
    /\ rpc = "respond"
    /\ req.handler = "handleHealthCheck"
    /\ resp.status = 200

\* C3: from the second cycle on, when the refresh goroutine of a route is
\* done, the route holds the body of the previous cycle if its fetch met a
\* non-success status, and a body fetched in this cycle if its fetch
\* succeeded.
C3_StaleButAvailable ==
    \A r \in Routes :
        (cycle >= 2 /\ tpc[r] = "done") =>
            /\ failed[r] = "status" => caches[r] = prevCaches[r]
            /\ failed[r] = "none" => caches[r].gen = cycle

\* C4: a transport error on a page request does not end the process.
C4_FetchFailureNeverStops ==
    (\E r \in Routes : failed[r] = "transport") => ~crashed

\* A view request with a key among the four view keys and a count >= 0.
ValidViewRequest(rq) ==
    /\ rq.handler = "handleViews"
    /\ Len(rq.tokens) = 5
    /\ rq.tokens[5] \in ViewKeys
    /\ \A i \in 1..Len(rq.tokens[4]) : IsDigit(rq.tokens[4][i])
    /\ rq.tokens[4] # <<>>

\* C5: a view request with a valid key and a count n >= 0 completes and
\* returns min(n, s) elements, s being the size of the view.
C5_TopNClamps ==
    (rpc \in {"respond", "panicked"} /\ ValidViewRequest(req)) =>
        /\ rpc = "respond"
        /\ Len(resp.items) = Min(Atoi(req.tokens[4]), Len(ViewOf(req.tokens[5])))

\* The value of a record for a sort key.
KeyVal(key, rec) ==
    CASE key = "forks" -> rec.forks
      [] key = "last_updated" -> rec.updated
      [] key = "open_issues" -> rec.openIssues
      [] key = "stars" -> rec.stars

\* The value of a record for a sort key as a view response shows it.
Rendered(key, rec) ==
    IF key = "last_updated" THEN FormatUpdated(rec.updated) ELSE KeyVal(key, rec)

\* The repository fields of a view element.
Fields(ve) ==
    [name |-> ve.name, forks |-> ve.forks, updated |-> ve.updated,
     openIssues |-> ve.openIssues, stars |-> ve.stars]

\* Sequences s and t hold the same values the same number of times.
SameBag(s, t) ==
    /\ Len(s) = Len(t)
    /\ \A x \in Range(s) :
         Cardinality({i \in DOMAIN s : s[i] = x}) = Cardinality({i \in DOMAIN t : t[i] = x})

\* The records of the published repos list, one view element per record.
IsViewOfPublished(view) ==
    SameBag([i \in DOMAIN view |-> Fields(view[i])], caches[kGitHubNetflixRepos].items)

\* C6: the response to a view request with a valid key and count n lists n
\* elements; element i pairs the prefixed name and the value for the key of
\* one record of the published repos list, each record being used at most
\* once; the values are in non-increasing order of the key, and no
\* published record left out of the response has a greater key than one in
\* the response.
C6_TopNContentAndOrder ==
    (rpc = "respond" /\ ValidViewRequest(req)) =>
        LET key == req.tokens[5]
            n == Atoi(req.tokens[4])
            view == ViewOf(key)
            items == resp.items
        IN  /\ Len(items) = n
            /\ n <= Len(view)
            /\ IsViewOfPublished(view)
            /\ \A i \in 1..n :
                 items[i] = <<"Netflix/" \o view[i].name, Rendered(key, view[i])>>
            /\ \A i, j \in 1..n : i < j => KeyVal(key, view[i]) >= KeyVal(key, view[j])
            /\ \A i \in 1..n : \A j \in (n + 1)..Len(view) :
                 KeyVal(key, view[j]) <= KeyVal(key, view[i])

\* C6 witness: the published repos are A (forks 5, stars 10) and B (forks 9,
\* stars 2) and the top-1 by forks is B with 9.
C6_Witness ==
    /\ rpc = "respond"
    /\ req = [handler |-> "handleViews", tokens |-> ViewPath(<<"1">>, "forks")]
    /\ caches[kGitHubNetflixRepos].items = <<RepoA, RepoB>>
    /\ resp.items = << <<"Netflix/B", 9>> >>

\* A view is in non-increasing order of its key.
Sorted(key, view) ==
    \A i, j \in DOMAIN view : i < j => KeyVal(key, view[i]) >= KeyVal(key, view[j])

\* The identities of the elements of a view.
Ptrs(view) == {ve.ptr : ve \in Range(view)}

\* C7: whenever a reader can read the views, the four views hold the same
\* elements, each element once, all allocated in the same cycle, and each
\* view is sorted by its key.
C7_ViewPermutation ==
    Observable =>
        /\ \A v \in 1..4 :
             /\ Ptrs(Views[v]) = Ptrs(topForks)
             /\ Cardinality(Ptrs(Views[v])) = Len(Views[v])
             /\ \A ve \in Range(Views[v]) : \E w \in Range(topForks) : w = ve
        /\ Cardinality(ViewGens) <= 1
        /\ Sorted("forks", topForks)
        /\ Sorted("last_updated", lastUpdated)
        /\ Sorted("open_issues", topOpenIssues)
        /\ Sorted("stars", topStars)

\* C7 witness: readable views of the second cycle whose four orders differ.
C7_Witness ==
    /\ Observable
    /\ ViewGens = {2}
    /\ Len(topForks) = 3
    /\ topForks # topStars
    /\ topForks # lastUpdated
    /\ topStars # topOpenIssues

\* C8: whenever a reader can read the cache, each view holds exactly the
\* repositories of the cached repos body.
C8_ViewBodyConsistency ==
    Observable => \A v \in 1..4 : IsViewOfPublished(Views[v])

\* C8 witness: a refresh cycle is in progress, the repos goroutine has
\* published its list and views, and another goroutine is still fetching.
C8_Witness ==
    /\ Observable
    /\ spc = "wait"
    /\ cycle = 2
    /\ tpc[kGitHubNetflixRepos] = "done"
    /\ tpc[kGitHubRoot] = "fetch"
    /\ caches[kGitHubNetflixRepos].gen = 2
    /\ Len(topStars) >= 2

\* C9: a fetch requests the pages of the chain in order from page 1, each
\* once, never past the end of the chain, and a fetch of the repos route
\* that met no failure has requested exactly the k pages of the chain when
\* its loop ends.
C9_PaginationWalk ==
    /\ \A r \in Routes :
         /\ requested[r] = [i \in 1..Len(requested[r]) |-> i]
         /\ chain[r] # 0 => Len(requested[r]) <= chain[r]
    /\ (tpc[kGitHubNetflixRepos] \in {"lock", "marshal", "clear", "refill", "sort"}
          /\ failed[kGitHubNetflixRepos] = "none") =>
            Len(requested[kGitHubNetflixRepos]) = chain[kGitHubNetflixRepos]

\* C9 witness: a chain of three pages has been walked and the loop has ended.
C9_Witness ==
    /\ tpc[kGitHubNetflixRepos] = "lock"
    /\ failed[kGitHubNetflixRepos] = "none"
    /\ chain[kGitHubNetflixRepos] = 3
    /\ requested[kGitHubNetflixRepos] = <<1, 2, 3>>

\* A view request with an unknown key, a count that is negative or not a
\* number, or no key segment.
InvalidViewRequest(rq) == rq.handler = "handleViews" /\ ~ValidViewRequest(rq)

\* C10: an invalid view request is answered with a client error and its
\* handler does not panic.
C10_InvalidViewQueryRejected ==
    (rpc \in {"respond", "panicked"} /\ InvalidViewRequest(req)) =>
        /\ rpc = "respond"
        /\ resp.status \in 400..499

\* The fetch of route r in the current cycle is still going on.
Fetching(r) == tpc[r] = "fetch"

\* C11: in a state a reader can observe, no route body and no view element
\* fetched in the current cycle is in the cache while the fetch of some
\* route of that cycle is still going on.
C11_BarrierBeforePublication ==
    (Observable /\ cycle >= 1 /\ \E q \in Routes : Fetching(q)) =>
        /\ \A r \in Routes : caches[r].gen # cycle
        /\ cycle \notin ViewGens

\* Every refresh goroutine of the current cycle has finished.
AllTasksDone == \A r \in Routes : tpc[r] \in {"idle", "done"}

\* C12: the scheduler is past the barrier of a cycle, and so able to start
\* the next one, only when the four refresh goroutines of the cycle have
\* finished; a goroutine still at work belongs to the current cycle, and no
\* cached body is newer than the current cycle.
C12_CyclesSerialized ==
    /\ spc \in {"markReady", "setReady", "sleep", "run"} => AllTasksDone
    /\ \A r \in SinglePageRoutes : tpc[r] \in {"lock", "store"} => body[r].gen = cycle
    /\ \A r \in Routes : caches[r].gen <= cycle
    /\ \A c \in ViewGens : c <= cycle

\* C12 witness: the second cycle has started its fetches after every
\* goroutine of the first cycle stored its body, and one goroutine of the
\* second cycle is about to write.
C12_Witness ==
    /\ cycle = 2
    /\ spc = "wait"
    /\ \A r \in Routes : caches[r].gen = 1
    /\ tpc[kGitHubNetflix] = "store"
    /\ tpc[kGitHubRoot] = "fetch"

\* The positions of a refresh goroutine inside its critical section.
CriticalSection(r) ==
    IF r = kGitHubNetflixRepos THEN {"marshal", "clear", "refill", "sort"} ELSE {"store"}

\* C13: a refresh goroutine that holds the lock has finished its page
\* requests (for the repos route, the loop has seen the last page), and the
\* other holders of the lock issue no upstream request.
C13_NoFetchUnderLock ==
    /\ \A r \in Routes :
         lock = r => /\ ~Fetching(r)
                     /\ tpc[r] \in CriticalSection(r)
                     /\ requested[r] # <<>>
    /\ lock = kGitHubNetflixRepos => ~next
    /\ lock \in Routes \cup {"free", "refreshCaches", "handler"}

\* C13 witness: the repos goroutine holds the lock after a walk of three
\* pages while another goroutine is still fetching.
C13_Witness ==
    /\ lock = kGitHubNetflixRepos
    /\ requested[kGitHubNetflixRepos] = <<1, 2, 3>>
    /\ tpc[kGitHubNetflixRepos] = "marshal"
    /\ Fetching(kGitHubNetflixMembers)

\* C14: when a single-page route is about to store the body of a fetch that
\* met no failure, the body is the last page of the chain: the PagedGet
\* holds no link to a page after it.
C14_SinglePageKeepsLastPage ==
    \A r \in SinglePageRoutes :
        (tpc[r] = "store" /\ failed[r] = "none") => ~(g[r].nextLink > body[r].page)

\* The entities of pages 1..k of the repos chain of cycle c, in page order.
RECURSIVE Flatten(_, _)
Flatten(c, k) == IF k = 0 THEN <<>> ELSE Flatten(c, k - 1) \o PagePayload(c, k)

\* C15: after a repos fetch that met no failure over a chain of k pages,
\* the cached repos body is one array of the entities of pages 1..k in page
\* order, and once published each view holds one record per entity.
C15_ReposFlattening ==
    /\ (tpc[kGitHubNetflixRepos] \in {"clear", "refill", "sort"}
          /\ failed[kGitHubNetflixRepos] = "none") =>
            caches[kGitHubNetflixRepos] =
                [route |-> kGitHubNetflixRepos, gen |-> cycle, page |-> 0, kind |-> "array",
                 items |-> Flatten(cycle, chain[kGitHubNetflixRepos])]
    /\ (Observable /\ tpc[kGitHubNetflixRepos] = "done"
          /\ failed[kGitHubNetflixRepos] = "none") =>
            /\ \E k \in 1..MaxPages :
                 caches[kGitHubNetflixRepos].items = Flatten(cycle, k)
            /\ \A v \in 1..4 :
                 /\ IsViewOfPublished(Views[v])
                 /\ Len(Views[v]) = Len(caches[kGitHubNetflixRepos].items)

\* C15 witness: the three pages of the second cycle are published flattened.
C15_Witness ==
    /\ Observable
    /\ cycle = 2
    /\ tpc[kGitHubNetflixRepos] = "done"
    /\ failed[kGitHubNetflixRepos] = "none"
    /\ caches[kGitHubNetflixRepos].items = <<RepoC, RepoA, RepoB, RepoC>>
    /\ Len(topForks) = 4

\* C17: from the second cycle on, when the repos goroutine is done after a
\* fetch in which a page was malformed, the cached repos body is that of
\* the previous cycle and the views hold no element of this cycle.
C17_DecodeFailureKeepsPrevious ==
    (cycle >= 2 /\ tpc[kGitHubNetflixRepos] = "done"
       /\ failed[kGitHubNetflixRepos] = "malformed") =>
        /\ caches[kGitHubNetflixRepos] = prevCaches[kGitHubNetflixRepos]
        /\ cycle \notin ViewGens

\* GetPage on the PagedGet of route r has returned more = false.
WalkEnded(r) ==
    IF r = kGitHubNetflixRepos
    THEN tpc[r] = "lock" /\ ~next
    ELSE tpc[r] = "lock" /\ ~(g[r].nextLink > body[r].page)

\* C18: once GetPage has returned the last page of a chain, the PagedGet
\* holds no link, and a further call panics whatever the upstream would
\* answer.
C18_WalkForwardOnly ==
    \A r \in Routes :
        WalkEnded(r) =>
            /\ g[r].nextLink = 0
            /\ \A k \in ChainLengths(r) :
                 GetPage(g[r], Response(r, cycle, g[r].nextLink, k, "ok")).panic

\* C19: when ready is true, each route holds a body written by a refresh
\* goroutine of that route.
C19_ReadyImpliesPopulated ==
    ready => \A r \in Routes : /\ caches[r].kind # "nil"
                               /\ caches[r].route = r
                               /\ caches[r].gen >= 1

\* C19 witness: ready after a first cycle whose repos fetch met a
\* non-success status.
C19_Witness ==
    /\ ready
    /\ cycle = 1
    /\ caches[kGitHubNetflixRepos].kind = "null"
    /\ caches[kGitHubRoot].kind = "json"

\* C20: whoever holds the lock is at a position from which it releases it.
C20_LockReleasedOnEveryPath ==
    /\ lock = "handler" => rpc = "respond"
    /\ lock = "refreshCaches" => spc = "setReady"
    /\ \A r \in Routes : lock = r => tpc[r] \in CriticalSection(r)

====
